---- MODULE Spec2Model ----
(***************************************************************************)
(* Model of src/src/App.tsx: the curve generator useCurve, the horizon     *)
(* computation of WeightLossProjection, the ranking of DriversOfLiking and *)
(* the local UI state of the page fragments.                               *)
(*                                                                         *)
(* JavaScript numbers are modelled in decimal fixed point.  A value v of   *)
(* the program (a y, a weight, a noise term) is the integer v * Scale; a   *)
(* rate k and a noise amplitude are kept in thousandths (the sliders step  *)
(* by 0.001 and 0.005); a time t is an integer as in the source; t90 is    *)
(* kept in hundredths.  The IEEE-754 values Infinity and NaN are the named *)
(* encodings PosInf, NegInf and NaN, and every arithmetic operator below   *)
(* follows the IEEE rules for them.                                        *)
(***************************************************************************)
EXTENDS Integers, Sequences, FiniteSets, TLC

\* 1.0 in fixed point: four decimal places.
Scale == 10000

\* Encodings of the non-finite doubles; every finite value of the model is
\* strictly between NegInf and PosInf.
PosInf == 2000000001
NegInf == -2000000001
NaN == -2000000003

\* A finite double too large for the fixed-point range is saturated here.
\* Every use of such a value in the source is clamped by Math.min(1, .) or
\* inverted by L / (1 + .), so the saturation does not change a result.
HugeVal == 1000000000

IsNaN(x) == x = NaN
IsFinite(x) == x \notin {PosInf, NegInf, NaN}

Min2(a, b) == IF a <= b THEN a ELSE b
Max2(a, b) == IF a >= b THEN a ELSE b

\* Math.min / Math.max: NaN if either argument is NaN.
MathMin(a, b) == IF IsNaN(a) \/ IsNaN(b) THEN NaN ELSE Min2(a, b)
MathMax(a, b) == IF IsNaN(a) \/ IsNaN(b) THEN NaN ELSE Max2(a, b)

\* floor(a * b / d) for a >= 0, d > 0 and small |b|, without leaving the
\* 32-bit range: a = q*d + r gives a*b/d = q*b + r*b/d.
MulDiv(a, b, d) == (a \div d) * b + ((a % d) * b) \div d

\* ceil(a * b / d) under the same conditions.
MulDivUp(a, b, d) == (a \div d) * b + ((a % d) * b + d - 1) \div d

\* a + b on doubles.
FAdd(a, b) ==
    IF IsNaN(a) \/ IsNaN(b) THEN NaN
    ELSE IF (a = PosInf /\ b = NegInf) \/ (a = NegInf /\ b = PosInf) THEN NaN
    ELSE IF a = PosInf \/ b = PosInf THEN PosInf
    ELSE IF a = NegInf \/ b = NegInf THEN NegInf
    ELSE a + b

\* c * x on doubles, c a finite fixed-point coefficient, x >= 0 or special.
FMul(c, x) ==
    IF IsNaN(x) THEN NaN
    ELSE IF x = PosInf THEN (IF c > 0 THEN PosInf ELSE IF c < 0 THEN NegInf ELSE NaN)
    ELSE IF x = NegInf THEN (IF c > 0 THEN NegInf ELSE IF c < 0 THEN PosInf ELSE NaN)
    ELSE MulDiv(x, c, Scale)

\* -x on doubles.
FNeg(x) == IF IsNaN(x) THEN NaN ELSE -x

\* 1 / x on doubles, x > 0 or special.
FRecip(x) ==
    IF IsNaN(x) THEN NaN
    ELSE IF x = PosInf \/ x = NegInf THEN 0
    ELSE (Scale * Scale) \div x

\* Mutant of FScale: the factor is forgotten.
FScale_Identity(y, num, den) == y

\* y * num / den for a y in [0, 1] (or NaN): the factors 0.9 and 1.1.
FScale(y, num, den) == IF IsFinite(y) THEN (y * num) \div den ELSE y

(***************************************************************************)
(* Math.exp.  The argument is the rational n / d, 0 < d <= 100000.         *)
(* exp(x) = e^q * e^f with q = floor(x) and f = x - q in [0, 1): e^f by    *)
(* its Taylor series, e^q by repeated multiplication by e, every rounding  *)
(* directed so that the result is non-decreasing in x, as Math.exp is.     *)
(***************************************************************************)
ArgDen == 20000
\* e in fixed point, rounded up.
EFix == 27183
\* Math.exp overflows to Infinity above ln(Number.MAX_VALUE) = 709.78...
ExpOverflowMilli == 709782
\* Largest integer part whose power of e fits the fixed-point range.
ExpSatWhole == 10
\* Below this integer part e^x is 0 to four decimal places.
ExpZeroWhole == -12

RECURSIVE TaylorSum(_, _, _)
TaylorSum(term, f, n) ==
    IF term = 0 THEN 0
    ELSE term + TaylorSum((term * f) \div (n * ArgDen), f, n + 1)

\* e^(f / ArgDen) for 0 <= f < ArgDen.
ExpFrac(f) == TaylorSum(Scale, f, 1)

RECURSIVE EPow(_)
EPow(q) ==
    IF q = 0 THEN Scale
    ELSE IF q < ExpZeroWhole THEN 0
    ELSE IF q < 0 THEN (EPow(q + 1) * Scale) \div EFix
    ELSE MulDivUp(EPow(q - 1), EFix, Scale)

ArgWhole(n, d) == n \div d
ArgMilli(n, d) == (n \div d) * 1000 + ((n % d) * 1000) \div d

MathExp(n, d) ==
    IF ArgMilli(n, d) > ExpOverflowMilli THEN PosInf
    ELSE IF ArgWhole(n, d) > ExpSatWhole THEN HugeVal
    ELSE IF ArgWhole(n, d) < ExpZeroWhole THEN 0
    ELSE MulDiv(EPow(ArgWhole(n, d)), ExpFrac(((n % d) * ArgDen) \div d), Scale)

(***************************************************************************)
(* Program constants.                                                      *)
(***************************************************************************)
\* The k slider: min 0.005, max 0.1, step 0.001, initial value 0.03.
KMin == 5
KMax == 100
KInit == 30
\* The noise slider of WeightLossProjection: 0 .. 0.1 by 0.005, initially 0.02.
NoiseMax == 100
NoiseStep == 5
NoiseInit == 20
\* ln(10) * 10^8.
Ln10E8 == 230258509

Models == {"exp", "logistic"}
SliderRates == KMin..KMax
SliderNoises == {n \in 0..NoiseMax : n % NoiseStep = 0}

(***************************************************************************)
(* Math.random(): a draw in [0, 1), in units of 1/Scale.  The draws of one *)
(* render form the periodic sequence rs[1], ..., rs[RandPeriod], rs[1], .. *)
(* each at one end of the interval.                                        *)
(***************************************************************************)
RandSet == {0, Scale - 1}
RandPeriod == 2
RandSeqs == [1..RandPeriod -> RandSet]
Draw(rs, i) == rs[(i % Len(rs)) + 1]

(***************************************************************************)
(* WeightLossProjection: the horizon.                                      *)
(***************************************************************************)
\* Mutant of RateFloor: the floor is 1e-2 instead of 1e-6.
RateFloor_Coarse(rate) == Max2(10000, rate * 1000)

\* Math.max(1e-6, k) in millionths.
RateFloor(rate) == Max2(1, rate * 1000)

\* t90 = Math.log(10) / Math.max(1e-6, k), in hundredths.
t90(rate) == Ln10E8 \div RateFloor(rate)

\* Mutant of tMax: Math.floor instead of Math.ceil.
tMax_Floor(rate) == (t90(rate) * 6) \div 500

\* tMax = Math.ceil(t90 * 1.2).
tMax(rate) == (t90(rate) * 6 + 499) \div 500

(***************************************************************************)
(* useCurve.                                                               *)
(***************************************************************************)
CurveStep(tmax) == Max2(1, tmax \div 60)

\* Mutant of Ideal: the exponential model grows, 1 - exp(-k * t).
Ideal_Growth(m, rate, tmax, time) ==
    IF m = "exp" THEN FAdd(Scale, FNeg(MathExp(-(rate * time), 1000)))
    ELSE LET s == Max2(1, 10 * rate)
             e == MathExp(-(s * (4 * time - tmax)), 4000)
         IN  FAdd(Scale, FNeg(FRecip(FAdd(Scale, e))))

\* Mutant of Ideal: the logistic steepness is k instead of 10 * k.
Ideal_Shallow(m, rate, tmax, time) ==
    IF m = "exp" THEN MathExp(-(rate * time), 1000)
    ELSE LET s == Max2(1, rate)
             e == MathExp(-(s * (4 * time - tmax)), 4000)
         IN  FAdd(Scale, FNeg(FRecip(FAdd(Scale, e))))

\* The noise-free value at time t.
Ideal(m, rate, tmax, time) ==
    IF m = "exp" THEN MathExp(-(rate * time), 1000)
    ELSE LET s == Max2(1, 10 * rate)
             e == MathExp(-(s * (4 * time - tmax)), 4000)
         IN  FAdd(Scale, FNeg(FRecip(FAdd(Scale, e))))

\* Mutant of NoiseCoef: the draw is not centred, Math.random() * 2 * noise.
NoiseCoef_Uncentred(r, nz) == (r * 2 * nz) \div 1000

\* (Math.random() - 0.5) * 2 * noise, in units of 1/Scale.
NoiseCoef(r, nz) == ((r - Scale \div 2) * 2 * nz) \div 1000

Eps(nz, r, ideal) == IF nz # 0 THEN FMul(NoiseCoef(r, nz), ideal) ELSE 0

\* Mutant of Clamp01: the upper clamp is missing.
Clamp01_NoCeiling(v) == MathMax(0, v)

Clamp01(v) == MathMax(0, MathMin(Scale, v))

Point(m, rate, tmax, nz, r, time) ==
    LET ideal == Ideal(m, rate, tmax, time)
        y == Clamp01(FAdd(ideal, Eps(nz, r, ideal)))
    IN  [t |-> time, y |-> y,
         yLo |-> MathMax(0, FScale(y, 9, 10)),
         yHi |-> MathMin(Scale, FScale(y, 11, 10))]

\* for (let t = 0; t <= tMax; t += step): tMax \div step + 1 iterations, the
\* i-th (from 0) at t = i * step and taking the i-th draw.
useCurve(m, rate, tmax, nz, rs) ==
    [j \in 1..(tmax \div CurveStep(tmax) + 1) |->
        Point(m, rate, tmax, nz, Draw(rs, j - 1), (j - 1) * CurveStep(tmax))]

(***************************************************************************)
(* DriversOfLiking.                                                        *)
(***************************************************************************)
TimePoints == {"Day 1", "Day 7", "Day 14"}
FeatureNames ==
    <<"Freshness", "Sillage", "Longevity", "Price", "Brand", "Eco Score",
      "Package", "Texture">>
\* The weights, in units of 1/Scale, in the key order of the object literals.
SAMPLE_FEATURES ==
    [d \in TimePoints |->
        IF d = "Day 1" THEN <<2400, 1800, 1200, 600, 500, 800, 1000, 1700>>
        ELSE IF d = "Day 7" THEN <<1800, 2200, 1600, 500, 400, 900, 800, 1800>>
        ELSE <<1500, 2500, 1900, 400, 300, 1000, 700, 1700>>]

\* The noise slider of DriversOfLiking: 0 .. 0.08 by 0.005, initially 0.
DolNoiseMax == 80
DolNoises == {n \in 0..DolNoiseMax : n % NoiseStep = 0}

\* Object.entries(base).map(...): one Math.random() per feature, in key order.
Features(d, nz, rs) ==
    [i \in 1..Len(FeatureNames) |->
        [name |-> FeatureNames[i],
         value |-> MathMax(0, FAdd(SAMPLE_FEATURES[d][i],
                                   NoiseCoef(Draw(rs, i - 1), nz)))]]

\* Array.prototype.sort with (a, b) => b.value - a.value: a stable sort,
\* descending by value.
\* Mutant of InsertDesc: the comparator is a.value - b.value (ascending).
RECURSIVE InsertAsc(_, _)
InsertAsc(s, x) ==
    IF s = <<>> THEN <<x>>
    ELSE IF Head(s).value <= x.value THEN <<Head(s)>> \o InsertAsc(Tail(s), x)
    ELSE <<x>> \o s

RECURSIVE InsertDesc(_, _)
InsertDesc(s, x) ==
    IF s = <<>> THEN <<x>>
    ELSE IF Head(s).value >= x.value THEN <<Head(s)>> \o InsertDesc(Tail(s), x)
    ELSE <<x>> \o s

RECURSIVE SortDesc(_)
SortDesc(s) ==
    IF s = <<>> THEN <<>>
    ELSE InsertDesc(SortDesc(SubSeq(s, 1, Len(s) - 1)), s[Len(s)])

Names(s) == [i \in 1..Len(s) |-> s[i].name]

WeightEntries(d) ==
    [i \in 1..Len(FeatureNames) |->
        [name |-> FeatureNames[i], value |-> SAMPLE_FEATURES[d][i]]]

\* Mutant of Stability: the noise penalty is missing.
Stability_NoPenalty(fs, nz) ==
    LET ref == Names(SortDesc(WeightEntries("Day 1")))
        order == Names(SortDesc(fs))
        matches == Cardinality({i \in 1..Len(order) : order[i] = ref[i]})
    IN  (matches * 3 * (Scale \div 10)) \div Len(order) + 7 * (Scale \div 10)

\* stability: 0.3 * (matches / order.length) + 0.7 - 0.5 * noise.
Stability(fs, nz) ==
    LET ref == Names(SortDesc(WeightEntries("Day 1")))
        order == Names(SortDesc(fs))
        matches == Cardinality({i \in 1..Len(order) : order[i] = ref[i]})
    IN  (matches * 3 * (Scale \div 10)) \div Len(order) + 7 * (Scale \div 10) - nz * 5

\* Number.prototype.toFixed(2), in hundredths: the nearest hundredth; a
\* value halfway between two hundredths in decimal is a double on one side
\* or the other, so both neighbours are results.
ToFixed2(v) ==
    IF v % 100 = 50 THEN {v \div 100, v \div 100 + 1} ELSE {(v + 50) \div 100}

\* {Math.max(0.5, Math.min(1, stability)).toFixed(2)}.
StabilityShown(fs, nz) ==
    ToFixed2(MathMax(Scale \div 2, MathMin(Scale, Stability(fs, nz))))

(***************************************************************************)
(* Timeline.                                                               *)
(***************************************************************************)
\* MILESTONES has six entries, indexed 0 .. 5.
NumMilestones == 6
\* openIdx === null.
NullIdx == -1
\* selected === null.
NullName == "null"

(***************************************************************************)
(* State.  One variable per useState cell and, for the two generators      *)
(* whose result holds random draws, one per useMemo cell.                  *)
(***************************************************************************)
VARIABLES
    k,          \* WeightLossProjection: rate, thousandths
    noise,      \* WeightLossProjection: noise amplitude, thousandths
    model,      \* WeightLossProjection: "exp" or "logistic"
    data,       \* WeightLossProjection: the memoised result of useCurve
    pin,        \* InteractiveArea: <<>> (null) or <<[t, y]>>
    tp,         \* DriversOfLiking: time-point label
    dolNoise,   \* DriversOfLiking: noise amplitude, thousandths
    features,   \* DriversOfLiking: the memoised perturbed weights
    selected,   \* DriversOfLiking: NullName or a feature name
    showFabric, \* AzureComparison
    openIdx,    \* Timeline: NullIdx or 0 .. NumMilestones - 1
    pauseAnim   \* App

vars == <<k, noise, model, data, pin, tp, dolNoise, features, selected,
          showFabric, openIdx, pauseAnim>>

wlpVars == <<k, noise, model, data>>
dolVars == <<tp, dolNoise, features, selected>>

(***************************************************************************)
(* Bounds of the interaction model: the slider positions the user visits,  *)
(* and the chart points the user clicks.                                   *)
(***************************************************************************)
MaxUiRates == 2
MaxUiNoises == 2
MaxUiDolNoises == 2
MaxClickIdx == 1

RateSamples == <<KInit, KMax, KMin, 64, 17>>
NoiseSamples == <<NoiseInit, 0, NoiseMax, 50, 5>>
DolNoiseSamples == <<0, DolNoiseMax, 40, 5, 20>>

Prefix(s, n) == {s[i] : i \in 1..Min2(n, Len(s))}
UiRates == Prefix(RateSamples, MaxUiRates)
UiNoises == Prefix(NoiseSamples, MaxUiNoises)
UiDolNoises == Prefix(DolNoiseSamples, MaxUiDolNoises)

\* The inputs of the whole page (Spec): two stops of every slider, and
\* renders whose draws are all equal.
AppRates == {KInit, KMax}
AppNoises == {NoiseInit, 0}
AppDolNoises == {0, DolNoiseMax}
AppSeqs == {[i \in 1..RandPeriod |-> r] : r \in RandSet}

\* The memo cells: every result the generators can produce for the inputs
\* of the interaction model.  (\o <<>> and @@ <<>> leave a value unchanged
\* and make TLC tabulate it once instead of at every use.)
CurveTable ==
    [m \in Models, kk \in UiRates \cup AppRates, nz \in UiNoises \cup AppNoises,
     rs \in RandSeqs |->
        useCurve(m, kk, tMax(kk), nz, rs) \o <<>>] @@ <<>>
FeatureTable ==
    [d \in TimePoints, nz \in UiDolNoises \cup AppDolNoises, rs \in RandSeqs |->
        Features(d, nz, rs) \o <<>>] @@ <<>>

\* const sorted = useMemo(() => [...features].sort(...), [features]): one
\* result per value of features.
SortedTable ==
    [fs \in {FeatureTable[x] : x \in DOMAIN FeatureTable} |->
        SortDesc(fs) \o <<>>] @@ <<>>
Sorted(fs) == SortedTable[fs]

\* const stability = useMemo(..., [features, noise]): one result per value
\* of features and noise.
StabilityTable ==
    [fs \in DOMAIN SortedTable, nz \in UiDolNoises \cup AppDolNoises |->
        Stability(fs, nz)] @@ <<>>

\* A render of WeightLossProjection with parameters (m, kk, nz): useMemo
\* keeps the cell when no dependency changed and recomputes it otherwise,
\* with draws from seqs.
RenderCurve(m, kk, nz, seqs) ==
    IF <<m, kk, nz>> = <<model, k, noise>> THEN data' = data
    ELSE \E rs \in seqs : data' = CurveTable[m, kk, nz, rs]

RenderFeatures(d, nz, seqs) ==
    IF <<d, nz>> = <<tp, dolNoise>> THEN features' = features
    ELSE \E rs \in seqs : features' = FeatureTable[d, nz, rs]

(***************************************************************************)
(* The user interface.                                                     *)
(***************************************************************************)
\* The first render, with draws from seqs.
Mount(seqs) ==
    /\ k = KInit
    /\ noise = NoiseInit
    /\ model = "exp"
    /\ \E rs \in seqs : data = CurveTable["exp", KInit, NoiseInit, rs]
    /\ pin = <<>>
    /\ tp = "Day 1"
    /\ dolNoise = 0
    /\ \E rs \in seqs : features = FeatureTable["Day 1", 0, rs]
    /\ selected = NullName
    /\ showFabric = TRUE
    /\ openIdx = 0
    /\ pauseAnim = FALSE

Init == Mount(AppSeqs)

\* Chip onClick={() => setModel(m)}.
SetModel(m, seqs) ==
    /\ model' = m
    /\ RenderCurve(m, k, noise, seqs)
    /\ UNCHANGED <<k, noise, pin, dolVars, showFabric, openIdx, pauseAnim>>

\* Mutant of SetK: k is missing from the dependency list of useMemo.
SetK_Stale(v, seqs) ==
    /\ k' = v
    /\ data' = data
    /\ UNCHANGED <<noise, model, pin, dolVars, showFabric, openIdx, pauseAnim>>

\* The k slider: onChange={(e) => setK(parseFloat(e.target.value))}.
SetK(v, seqs) ==
    /\ k' = v
    /\ RenderCurve(model, v, noise, seqs)
    /\ UNCHANGED <<noise, model, pin, dolVars, showFabric, openIdx, pauseAnim>>

\* The noise slider of WeightLossProjection.
SetNoise(v, seqs) ==
    /\ noise' = v
    /\ RenderCurve(model, k, v, seqs)
    /\ UNCHANGED <<k, model, pin, dolVars, showFabric, openIdx, pauseAnim>>

\* AreaChart onClick on the point of index i: activeLabel is its t and
\* activePayload[2] the series y.
ClickChart(i) ==
    /\ i <= Len(data)
    /\ pin' = <<[t |-> data[i].t, y |-> data[i].y]>>
    /\ UNCHANGED <<wlpVars, dolVars, showFabric, openIdx, pauseAnim>>

\* Mutant of SetTp: selecting a time point also resets the pinned point of
\* the other chart.
SetTp_ClearsPin(d, seqs) ==
    /\ tp' = d
    /\ RenderFeatures(d, dolNoise, seqs)
    /\ pin' = <<>>
    /\ UNCHANGED <<dolNoise, selected, wlpVars, showFabric, openIdx, pauseAnim>>

\* Chip onClick={() => setTp(d)}.
SetTp(d, seqs) ==
    /\ tp' = d
    /\ RenderFeatures(d, dolNoise, seqs)
    /\ UNCHANGED <<dolNoise, selected, wlpVars, pin, showFabric, openIdx, pauseAnim>>

\* The noise slider of DriversOfLiking.
SetDolNoise(v, seqs) ==
    /\ dolNoise' = v
    /\ RenderFeatures(tp, v, seqs)
    /\ UNCHANGED <<tp, selected, wlpVars, pin, showFabric, openIdx, pauseAnim>>

\* Mutant of ClickBar: features is computed without useMemo, so the render
\* that follows the click draws again.
ClickBar_Redraws(idx) ==
    /\ selected' = Sorted(features)[idx + 1].name
    /\ \E rs \in RandSeqs : features' = FeatureTable[tp, dolNoise, rs]
    /\ UNCHANGED <<tp, dolNoise, wlpVars, pin, showFabric, openIdx, pauseAnim>>

\* Mutant of ClickBar: the index is applied to features, not to sorted.
ClickBar_Unsorted(idx) ==
    /\ selected' = features[idx + 1].name
    /\ UNCHANGED <<tp, dolNoise, features, wlpVars, pin, showFabric, openIdx, pauseAnim>>

\* Bar onClick={(_, idx) => setSelected(sorted[idx].name)}, idx from 0.
ClickBar(idx) ==
    /\ selected' = Sorted(features)[idx + 1].name
    /\ UNCHANGED <<tp, dolNoise, features, wlpVars, pin, showFabric, openIdx, pauseAnim>>

\* DriverModal onClose={() => setSelected(null)}; the modal and its two
\* close controls are rendered only while name is set.
CloseModal ==
    /\ selected # NullName
    /\ selected' = NullName
    /\ UNCHANGED <<tp, dolNoise, features, wlpVars, pin, showFabric, openIdx, pauseAnim>>

\* Toggle onClick={() => onChange(!checked)} with onChange = setShowFabric.
ToggleFabric ==
    /\ showFabric' = ~showFabric
    /\ UNCHANGED <<wlpVars, pin, dolVars, openIdx, pauseAnim>>

\* Mutant of ClickMilestone: a click always opens, setOpenIdx(i).
ClickMilestone_NoToggle(i) ==
    /\ openIdx' = i
    /\ UNCHANGED <<wlpVars, pin, dolVars, showFabric, pauseAnim>>

\* onClick={() => setOpenIdx(openIdx === i ? null : i)}.
ClickMilestone(i) ==
    /\ openIdx' = IF openIdx = i THEN NullIdx ELSE i
    /\ UNCHANGED <<wlpVars, pin, dolVars, showFabric, pauseAnim>>

\* onClick={() => setPauseAnim((p) => !p)}.
TogglePause ==
    /\ pauseAnim' = ~pauseAnim
    /\ UNCHANGED <<wlpVars, pin, dolVars, showFabric, openIdx>>

\* The whole page: every control, the chart clicked at its first point.
Next ==
    \/ \E m \in Models : SetModel(m, AppSeqs)
    \/ \E v \in AppRates : SetK(v, AppSeqs)
    \/ \E v \in AppNoises : SetNoise(v, AppSeqs)
    \/ ClickChart(1)
    \/ \E d \in TimePoints : SetTp(d, AppSeqs)
    \/ \E v \in AppDolNoises : SetDolNoise(v, AppSeqs)
    \/ \E idx \in 0..(Len(FeatureNames) - 1) : ClickBar(idx)
    \/ CloseModal
    \/ ToggleFabric
    \/ \E i \in 0..(NumMilestones - 1) : ClickMilestone(i)
    \/ TogglePause

Spec == Init /\ [][Next]_vars

(***************************************************************************)
(* One fragment at a time, under any draws of RandSeqs: the controls of    *)
(* WeightLossProjection with its chart, and those of DriversOfLiking with  *)
(* its modal.                                                              *)
(***************************************************************************)
UiInit == Mount(RandSeqs)

WlpNext ==
    \/ \E m \in Models : SetModel(m, RandSeqs)
    \/ \E v \in UiRates : SetK(v, RandSeqs)
    \/ \E v \in UiNoises : SetNoise(v, RandSeqs)
    \/ \E i \in 1..(MaxClickIdx + 1) : ClickChart(i)

WlpSpec == UiInit /\ [][WlpNext]_vars

DolNext ==
    \/ \E d \in TimePoints : SetTp(d, RandSeqs)
    \/ \E v \in UiDolNoises : SetDolNoise(v, RandSeqs)
    \/ \E idx \in 0..(Len(FeatureNames) - 1) : ClickBar(idx)
    \/ CloseModal

DolSpec == UiInit /\ [][DolNext]_vars

(***************************************************************************)
(* The generator on its own: useCurve applied to any parameters the two    *)
(* sliders and the two chips of WeightLossProjection can produce, under    *)
(* any draws of RandSeqs.                                                   *)
(***************************************************************************)
Quiet ==
    /\ pin = <<>>
    /\ tp = "Day 1"
    /\ dolNoise = 0
    /\ features = WeightEntries("Day 1")
    /\ selected = NullName
    /\ showFabric = TRUE
    /\ openIdx = 0
    /\ pauseAnim = FALSE

CurveInit ==
    /\ k \in SliderRates
    /\ noise \in SliderNoises
    /\ model \in Models
    /\ data = <<>>
    /\ Quiet

\* const data = useCurve(model, k, tMax, noise).
Generate ==
    /\ data = <<>>
    /\ \E rs \in RandSeqs : data' = useCurve(model, k, tMax(k), noise, rs) \o <<>>
    /\ UNCHANGED <<k, noise, model, pin, dolVars, showFabric, openIdx, pauseAnim>>

CurveNext == Generate

CurveSpec == CurveInit /\ [][CurveNext]_vars

(***************************************************************************)
(* The same, for rates outside the slider range: zero and negative rates.  *)
(***************************************************************************)
\* The most negative rate tried, in thousandths below zero.
MaxNegRate == 3
AnyRates == (-MaxNegRate)..KMin

RateInit ==
    /\ k \in AnyRates
    /\ noise \in SliderNoises
    /\ model \in Models
    /\ data = <<>>
    /\ Quiet

RateSpec == RateInit /\ [][CurveNext]_vars

(***************************************************************************)
(* Properties of the generator (CurveSpec).                                *)
(***************************************************************************)
Generated == data # <<>>
Abs(x) == IF x < 0 THEN -x ELSE x
\* "within tolerance": one thousandth.
Tol == Scale \div 1000
\* "close to": one hundredth.
Close == Scale \div 100
NonIncreasing(s) == \A i \in 1..(Len(s) - 1) : s[i + 1].y <= s[i].y

\* C1: for either model, any slider rate and any noise amplitude in
\* [0, 0.1], every generated point has y in [0, 1], whatever the draws.
C1_ValuesInUnitInterval ==
    \A i \in 1..Len(data) : data[i].y >= 0 /\ data[i].y <= Scale

\* C1 witness: a curve generated at the largest noise amplitude in which a
\* point was perturbed above its ideal value and the first one, whose ideal
\* value is 1, was held at 1.
C1_Witness ==
    /\ Generated
    /\ model = "exp"
    /\ noise = NoiseMax
    /\ data[1].y = Scale
    /\ \E i \in 1..Len(data) : data[i].y > Ideal(model, k, tMax(k), data[i].t)

\* C2 as stated: yLo = 0.9 * y and yHi = 1.1 * y for every generated point,
\* y close to 1 included.
C2_Original ==
    \A i \in 1..Len(data) :
        /\ data[i].yLo = (data[i].y * 9) \div 10
        /\ data[i].yHi = (data[i].y * 11) \div 10

\* C2 amended: yLo = 0.9 * y, and yHi = 1.1 * y capped at 1: yHi is
\* min(1, 1.1 * y), which is 1.1 * y exactly when 1.1 * y <= 1.
C2_BoundsCapped ==
    \A i \in 1..Len(data) :
        /\ data[i].yLo = (data[i].y * 9) \div 10
        /\ data[i].yHi = Min2(Scale, (data[i].y * 11) \div 10)
        /\ (data[i].y * 11) \div 10 <= Scale => data[i].yHi = (data[i].y * 11) \div 10
        /\ (data[i].y * 11) \div 10 > Scale => data[i].yHi = Scale

\* C2 witness: a curve with a point whose upper bound was capped and a point
\* whose upper bound is 1.1 * y.
C2_Witness ==
    /\ Generated
    /\ \E i \in 1..Len(data) :
          (data[i].y * 11) \div 10 > Scale /\ data[i].yHi = Scale
    /\ \E i \in 1..Len(data) :
          data[i].y > 0 /\ data[i].yHi = (data[i].y * 11) \div 10 /\ data[i].yHi < Scale

\* C3: exponential model, noise = 0: the first point is (t = 0, y = 1) and y
\* is non-increasing along the sequence.
C3_ExpDecay ==
    (Generated /\ model = "exp" /\ noise = 0) =>
        /\ data[1].t = 0
        /\ data[1].y = Scale
        /\ NonIncreasing(data)

\* C3 witness: a noise-free exponential curve that has decayed below 0.1.
C3_Witness ==
    /\ Generated
    /\ model = "exp"
    /\ noise = 0
    /\ Len(data) > 60
    /\ data[Len(data)].y < Scale \div 10

\* C4: for every slider rate t90 is ln(10) / k (the 1e-6 floor is inert), the
\* noise-free exponential value at t90 is 0.1 within tolerance, and tMax is
\* at least t90.
C4_Horizon ==
    /\ t90(k) = Ln10E8 \div (k * 1000)
    /\ Abs(MathExp(-(k * t90(k)), 100000) - Scale \div 10) <= Tol
    /\ tMax(k) * 100 >= t90(k)
    /\ Generated => data[Len(data)].t <= tMax(k)

\* C4 witness: the curve of the smallest slider rate, whose t90 is 460.51
\* and whose last point lies beyond t90.
C4_Witness ==
    /\ Generated
    /\ k = KMin
    /\ t90(k) = 46051
    /\ data[Len(data)].t * 100 >= t90(k)

\* C5: logistic model, noise = 0, tMax derived from k: the value at t = 0 is
\* close to 1, the value at the last point is close to 0, and y is
\* non-increasing along the sequence.
C5_Logistic ==
    (Generated /\ model = "logistic" /\ noise = 0) =>
        /\ data[1].t = 0
        /\ data[1].y >= Scale - Close
        /\ data[1].y <= Scale
        /\ data[Len(data)].y <= Close
        /\ NonIncreasing(data)

\* C5 witness: a noise-free logistic curve that passes through its midpoint.
C5_Witness ==
    /\ Generated
    /\ model = "logistic"
    /\ noise = 0
    /\ \E i \in 1..Len(data) :
          data[i].y < Scale - Close /\ data[i].y > Close

\* C11: for every generated point |y - ideal(t)| <= noise * ideal(t), up to
\* one unit of rounding, and with noise = 0 the generated y is the clamped
\* ideal value exactly, whatever the draws.
C11_NoiseProportional ==
    \A i \in 1..Len(data) :
        LET ideal == Ideal(model, k, tMax(k), data[i].t) IN
        /\ Abs(data[i].y - ideal) * 1000 <= noise * ideal + 1000
        /\ noise = 0 => data[i].y = Clamp01(ideal)

\* C11 witness: a curve at the largest noise amplitude with a point moved
\* down by the full noise * ideal, and a point moved up.
C11_Witness ==
    /\ Generated
    /\ noise = NoiseMax
    /\ \E i \in 1..Len(data) :
          LET ideal == Ideal(model, k, tMax(k), data[i].t) IN
          ideal > Scale \div 2 /\ (ideal - data[i].y) * 1000 = noise * ideal
    /\ \E i \in 1..Len(data) :
          data[i].y > Ideal(model, k, tMax(k), data[i].t)

(***************************************************************************)
(* Properties of the user interface (WlpSpec, DolSpec, Spec).              *)
(***************************************************************************)
\* C6 as stated: with model = exp, k = 0.03 and noise = 0 the horizon tMax
\* is 92, the first point is (0, 1.0) and the point at t = 77 has y near 0.1.
C6_Original ==
    (model = "exp" /\ k = KInit /\ noise = 0) =>
        /\ tMax(k) = 92
        /\ data[1].t = 0 /\ data[1].y = Scale
        /\ \E i \in 1..Len(data) :
              data[i].t = 77 /\ Abs(data[i].y - Scale \div 10) <= Tol

\* C6 amended: in that scenario tMax = ceil(1.2 * ln(10) / 0.03) is 93, the
\* first point is (0, 1.0) and the point at t = 77 has y near 0.1.
C6_Scenario ==
    (model = "exp" /\ k = KInit /\ noise = 0) =>
        /\ tMax(k) = 93
        /\ Len(data) = 94
        /\ data[1].t = 0 /\ data[1].y = Scale
        /\ \E i \in 1..Len(data) :
              data[i].t = 77 /\ Abs(data[i].y - Scale \div 10) <= Tol

\* C6 witness: the scenario, reached by moving the noise slider to 0 with
\* the initial model and rate.
C6_Witness ==
    /\ model = "exp" /\ k = KInit /\ noise = 0
    /\ data[Len(data)].t = 93

WeightOf(d, name) ==
    SAMPLE_FEATURES[d][CHOOSE i \in 1..Len(FeatureNames) : FeatureNames[i] = name]
MaxWeight(d) ==
    CHOOSE w \in {SAMPLE_FEATURES[d][i] : i \in 1..Len(FeatureNames)} :
        \A i \in 1..Len(FeatureNames) : SAMPLE_FEATURES[d][i] <= w

\* C7: with noise = 0 the displayed ranking holds every feature once, each
\* with its fixed weight for the selected time point, in descending order
\* of weight, and the top driver has the maximum weight.
C7_Ranking ==
    dolNoise = 0 =>
        LET s == Sorted(features) IN
        /\ Len(s) = Len(FeatureNames)
        /\ {s[i].name : i \in 1..Len(s)} = {FeatureNames[i] : i \in 1..Len(FeatureNames)}
        /\ \A i \in 1..Len(s) : s[i].value = WeightOf(tp, s[i].name)
        /\ \A i \in 1..(Len(s) - 1) : s[i].value >= s[i + 1].value
        /\ s[1].value = MaxWeight(tp)

\* C7 witness: the noise-free ranking of Day 14 after the time point was
\* changed, led by Sillage.
C7_Witness ==
    /\ dolNoise = 0
    /\ tp = "Day 14"
    /\ Sorted(features)[1].name = "Sillage"
    /\ Sorted(features)[Len(FeatureNames)].name = "Brand"

\* The Day 1 weights in descending order, as listed in SAMPLE_FEATURES.
Day1Ranking ==
    <<"Freshness", "Sillage", "Texture", "Longevity", "Package", "Eco Score",
      "Price", "Brand">>
Matches(fs) ==
    Cardinality({i \in 1..Len(Day1Ranking) : Sorted(fs)[i].name = Day1Ranking[i]})

\* C12: the stability score is 0.7 + 0.3 * (fraction of rank positions whose
\* feature is that of the Day 1 descending order) - 0.5 * noise, the
\* displayed value is within [0.5, 1], and with tp = Day 1 and noise = 0 it
\* is 1.00.
C12_Stability ==
    /\ Stability(features, dolNoise) * Len(Day1Ranking) =
          7 * (Scale \div 10) * Len(Day1Ranking)
          + 3 * (Scale \div 10) * Matches(features)
          - 5 * dolNoise * Len(Day1Ranking)
    /\ \A d \in StabilityShown(features, dolNoise) : d >= 50 /\ d <= 100
    /\ (tp = "Day 1" /\ dolNoise = 0) => StabilityShown(features, dolNoise) = {100}

\* C12 witness: a ranking under noise that agrees with the Day 1 order at
\* some positions and not at others, shown below 1.00.
C12_Witness ==
    /\ dolNoise > 0
    /\ tp # "Day 1"
    /\ Matches(features) > 0
    /\ Matches(features) < Len(Day1Ranking)
    /\ \A d \in StabilityShown(features, dolNoise) : d < 100

\* {name && (...)} in DriverModal: the modal is rendered for a truthy name.
ModalShown(name) == name # NullName /\ name # ""

\* The feature drawn as bar idx (from 0): the one with exactly idx features
\* ahead of it, those of greater value and those of equal value that come
\* earlier in key order.
BarName(fs, idx) ==
    LET ahead(i) == {j \in 1..Len(fs) :
                        \/ fs[j].value > fs[i].value
                        \/ fs[j].value = fs[i].value /\ j < i}
    IN  fs[CHOOSE i \in 1..Len(fs) : Cardinality(ahead(i)) = idx].name

\* The bars of the chart, by index.
Bars == 0..(Len(FeatureNames) - 1)

C14_Inv ==
    /\ ModalShown(selected) <=> selected # NullName
    /\ {idx \in Bars : ENABLED (ClickBar(idx) /\ selected' = BarName(features, idx))}
          = Bars
    /\ {idx \in Bars : ENABLED (ClickBar(idx) /\ selected' # BarName(features, idx))}
          = {}
    /\ {idx \in Bars : ModalShown(BarName(features, idx))} = Bars
    /\ ModalShown(selected) =>
          /\ ENABLED (CloseModal /\ selected' = NullName)
          /\ ~ENABLED (CloseModal /\ selected' # NullName)
    /\ ~ModalShown(selected) => ~ENABLED CloseModal

\* C14: the modal is initially closed; it is shown exactly when selected is
\* non-null; a click on bar idx opens it with the name of the idx-th feature
\* of the displayed ranking; from every state in which it is shown a close
\* control sets selected to null.
C14_Modal == (selected = NullName) /\ []C14_Inv

\* C14 witness: the modal open under noise on a feature whose bar is not at
\* its position in key order.
C14_Witness ==
    /\ ModalShown(selected)
    /\ dolNoise > 0
    /\ selected = BarName(features, 2)
    /\ selected # features[3].name

\* C8: a model chip changes only model (and the curve derived from it), a
\* time-point chip only tp (and the features derived from it), 'Show Fabric'
\* only showFabric, the background pause only pauseAnim; the state of every
\* sibling fragment is unchanged.
C8_Step ==
    /\ model' # model =>
          UNCHANGED <<k, noise, pin, tp, dolNoise, features, selected,
                      showFabric, openIdx, pauseAnim>>
    /\ tp' # tp =>
          UNCHANGED <<k, noise, model, data, pin, dolNoise, selected,
                      showFabric, openIdx, pauseAnim>>
    /\ showFabric' # showFabric =>
          UNCHANGED <<wlpVars, pin, dolVars, openIdx, pauseAnim>>
    /\ pauseAnim' # pauseAnim =>
          UNCHANGED <<wlpVars, pin, dolVars, showFabric, openIdx>>
C8_FragmentFrame == [][C8_Step]_vars

\* C8 witness: every one of the four controls has acted while the sibling
\* fragments hold non-initial state.
C8_Witness ==
    /\ model = "logistic"
    /\ tp = "Day 7"
    /\ ~showFabric
    /\ pauseAnim
    /\ pin # <<>>
    /\ selected # NullName
    /\ openIdx = NullIdx

\* C10: in every reachable state the curve handed to the chart is a result
\* of useCurve for the current model, k and noise.
C10_CurveIsCurrent ==
    \E rs \in RandSeqs : data = CurveTable[model, k, noise, rs]

\* C10 witness: all three parameters differ from their initial values.
C10_Witness ==
    /\ model = "logistic"
    /\ k # KInit
    /\ noise # NoiseInit
    /\ Len(data) > 1

\* {openIdx === i && ...}: the milestones whose description is rendered.
OpenMilestones == {i \in 0..(NumMilestones - 1) : openIdx = i}

C13_Inv ==
    /\ openIdx \in {NullIdx} \cup 0..(NumMilestones - 1)
    /\ Cardinality(OpenMilestones) <= 1
    /\ \A i \in 0..(NumMilestones - 1) :
          /\ ENABLED ClickMilestone(i)
          /\ IF openIdx = i
             THEN /\ ENABLED (ClickMilestone(i) /\ openIdx' = NullIdx)
                  /\ ~ENABLED (ClickMilestone(i) /\ openIdx' # NullIdx)
             ELSE /\ ENABLED (ClickMilestone(i) /\ openIdx' = i)
                  /\ ~ENABLED (ClickMilestone(i) /\ openIdx' # i)

\* C13: initially milestone 0 is open; in every reachable state openIdx is
\* null or an index 0..5, so at most one milestone is open; a click on the
\* open milestone closes it and a click on any other milestone i makes i
\* the only open one.
C13_Timeline == (openIdx = 0) /\ []C13_Inv

\* C13 witness: the timeline with every milestone closed, after a click on
\* the open one, the rest of the page untouched.
C13_Witness ==
    /\ openIdx = NullIdx
    /\ OpenMilestones = {}
    /\ pin = <<>>
    /\ selected = NullName

\* C15: a step that leaves tp and noise of DriversOfLiking unchanged leaves
\* the perturbed features, the sorted ranking and the stability score
\* unchanged, and a change of selected is such a step; a step that leaves
\* model, k and noise of WeightLossProjection unchanged leaves the curve
\* unchanged, and a change of pin is such a step.
C15_Step ==
    /\ (tp' = tp /\ dolNoise' = dolNoise) =>
          /\ features' = features
          /\ Sorted(features)' = Sorted(features)
          /\ StabilityTable[features, dolNoise]' = StabilityTable[features, dolNoise]
    /\ selected' # selected => (tp' = tp /\ dolNoise' = dolNoise)
    /\ (model' = model /\ k' = k /\ noise' = noise) => data' = data
    /\ pin' # pin => (model' = model /\ k' = k /\ noise' = noise)
C15_NoRedraw == [][C15_Step]_vars

\* C15 witness: under noise in both generators, the modal is open and a
\* point is pinned, each chart showing perturbed values.
C15_Witness ==
    /\ dolNoise > 0
    /\ selected # NullName
    /\ features # WeightEntries(tp)
    /\ noise > 0
    /\ pin # <<>>
    /\ \E i \in 1..Len(data) : data[i].y # Ideal(model, k, tMax(k), data[i].t)

(***************************************************************************)
(* Properties of the generator for any rate (RateSpec).                    *)
(***************************************************************************)
InUnit(v) == IsFinite(v) /\ v >= 0 /\ v <= Scale

\* C9: for any rate, zero and negative included, t90 is finite and
\* positive, tMax is a finite positive integer, the loop ends after
\* floor(tMax / step) + 1 iterations, and every y, yLo and yHi is a finite
\* number in [0, 1].
C9_FiniteResults ==
    /\ IsFinite(t90(k)) /\ t90(k) > 0
    /\ IsFinite(tMax(k)) /\ tMax(k) > 0
    /\ CurveStep(tMax(k)) >= 1
    /\ Generated =>
          /\ Len(data) = tMax(k) \div CurveStep(tMax(k)) + 1
          /\ \A i \in 1..Len(data) :
                InUnit(data[i].y) /\ InUnit(data[i].yLo) /\ InUnit(data[i].yHi)

====
